---- MODULE Spec2Model ----
(***************************************************************************)
(* Model of etl-poweroutages (src/task.ts): one invocation of              *)
(* Task.control(), the fetch -> transform -> submit pipeline, with the     *)
(* surrounding try/catch.                                                  *)
(*                                                                         *)
(* Conventions                                                             *)
(*  - a JavaScript string that the code only copies is a TLA+ string; the  *)
(*    'Min Customers' text, which Number() parses, is a tuple of           *)
(*    one-character strings;                                               *)
(*  - an absent (undefined) property is the value Undefined;               *)
(*  - a Date is [valid, ms]: an invalid Date has valid = FALSE;            *)
(*  - an ISO string produced by toISOString() is written as the instant    *)
(*    (ms since the epoch) it denotes: the two correspond one to one;      *)
(*  - a template string is the record of its label and interpolated value; *)
(*  - instants are small (first hours of 1970) to stay inside TLC's        *)
(*    integers; the arithmetic is the code's.                              *)
(***************************************************************************)
EXTENDS Integers, Sequences, FiniteSets, TLC

VARIABLES
    pc,            \* position of control(): start, validate, fetching, transform, submitting, done, failed
    env,           \* result of this.env(Env)
    minCustomers,  \* const minCustomers (line 127)
    url,           \* let url (lines 132-147)
    fetchCount,    \* number of fetch(url) calls made
    res,           \* const res, what fetch(url) resolved with (line 151)
    body,          \* const body (line 157)
    features,      \* const features (line 158)
    idx,           \* position of the for-of loop in body.outages (1-based)
    builtAt,       \* clock reading taken while each pushed feature was built
    now,           \* the system clock, Date.now()
    submitCount,   \* number of this.submit(fc) calls made
    submitted,     \* argument of the last this.submit call
    console,       \* lines written with console.log / console.error
    raised,        \* the error caught by the catch clause (line 208)
    thrown         \* the error control() rejects with (line 210)

vars == <<pc, env, minCustomers, url, fetchCount, res, body, features, idx, builtAt,
          now, submitCount, submitted, console, raised, thrown>>

\* ---------------------------------------------------------------- bounds

MaxRecords == 2

MaxTicks == 2

\* ---------------------------------------------------------------- values

Undefined == "<undefined>"

\* A JavaScript number: NaN, or the integer value.
NaN == [nan |-> TRUE, value |-> 0]

Num(v) == [nan |-> FALSE, value |-> v]

\* JavaScript truthiness of an optional string property.
Truthy(s) == s # Undefined /\ s # ""

NoError == [kind |-> "none", message |-> "", status |-> 0, statusText |-> ""]

Err(kind, message) == [kind |-> kind, message |-> message, status |-> 0, statusText |-> ""]

\* ---------------------------------------------------------------- Number()

Digits == <<"0", "1", "2", "3", "4", "5", "6", "7", "8", "9">>

IsDigit(c) == \E d \in 1..10 : Digits[d] = c

DigitValue(c) == (CHOOSE d \in 1..10 : Digits[d] = c) - 1

IsSpace(c) == c = " "

RECURSIVE TrimLeft(_)
TrimLeft(s) == IF s # <<>> /\ IsSpace(Head(s)) THEN TrimLeft(Tail(s)) ELSE s

RECURSIVE TrimRight(_)
TrimRight(s) ==
    IF s # <<>> /\ IsSpace(s[Len(s)]) THEN TrimRight(SubSeq(s, 1, Len(s) - 1)) ELSE s

RECURSIVE DigitsValue(_, _)
DigitsValue(s, acc) ==
    IF s = <<>> THEN acc ELSE DigitsValue(Tail(s), acc * 10 + DigitValue(Head(s)))

\* Number(string) for the decimal-integer literals of StringNumericLiteral:
\* surrounding white space is dropped, the empty string is 0, an optional
\* sign precedes the digits, anything else is NaN.
Number(str) ==
    LET t == TrimRight(TrimLeft(str))
        signed == t # <<>> /\ Head(t) \in {"+", "-"}
        d == IF signed THEN Tail(t) ELSE t
    IN  IF t = <<>> THEN Num(0)
        ELSE IF d = <<>> \/ \E i \in 1..Len(d) : ~IsDigit(d[i]) THEN NaN
        ELSE IF signed /\ Head(t) = "-" THEN Num(0 - DigitsValue(d, 0))
        ELSE Num(DigitsValue(d, 0))

isNaN(n) == n.nan

\* Number.prototype.toString() of a non-negative integer: its decimal digits.
RECURSIVE NumberToString(_)
NumberToString(n) ==
    IF n < 10 THEN <<Digits[n + 1]>>
    ELSE Append(NumberToString(n \div 10), Digits[(n % 10) + 1])

\* ---------------------------------------------------------------- Date

InvalidDate == [valid |-> FALSE, ms |-> 0]

\* new Date(string): the instant an ISO timestamp denotes; any other text
\* (and undefined) gives an invalid Date.
NewDate(s) ==
    CASE s = "1970-01-01T00:30:00Z" -> [valid |-> TRUE, ms |-> 1800000]
      [] s = "1970-01-01T02:00:00Z" -> [valid |-> TRUE, ms |-> 7200000]
      [] s = "1970-01-01T05:00:00Z" -> [valid |-> TRUE, ms |-> 18000000]
      [] OTHER -> InvalidDate

\* new Date(ms)
DateOf(ms) == [valid |-> TRUE, ms |-> ms]

\* Variant: toISOString taken never to throw.
ToISOStringNeverThrows(d) == FALSE

\* Date.prototype.toISOString throws a RangeError on an invalid Date.
ToISOStringThrows(d) == ~d.valid

\* Date.prototype.toISOString of a valid Date.
ToISOString(d) == d.ms

\* Date.prototype.toLocaleString('en-NZ', { timeZone: 'Pacific/Auckland' }):
\* the wall-clock reading in New Zealand (UTC+12 at the modelled instants), or
\* the text "Invalid Date"; it never throws.
ToLocaleString(d) ==
    IF d.valid THEN [text |-> "local", wall |-> d.ms + 12 * 3600000]
    ELSE [text |-> "Invalid Date", wall |-> 0]

\* ---------------------------------------------------------------- inputs

\* An optional list property (areas, streets).
List(items) == [present |-> TRUE, items |-> items]

NoList == [present |-> FALSE, items |-> <<>>]

\* An OutageRecord as the JSON body delivers it (interface PowerOutage); a
\* property the JSON omits is Undefined.  hasLocation = FALSE is a record
\* without its location object.
Outage(id, name, region, start, er, type, customers, crew, hasLocation, areas, streets, metadata) ==
    [outageId |-> id, utilityName |-> name, region |-> region, outageStart |-> start,
     estimatedRestoration |-> er, cause |-> "Tree contact", status |-> "active",
     outageType |-> type, customersAffected |-> customers, crewStatus |-> crew,
     hasLocation |-> hasLocation, longitude |-> 174, latitude |-> -36,
     areas |-> areas, streets |-> streets, metadata |-> metadata]

NoMetadata == [present |-> FALSE, feeder |-> Undefined, aggregationType |-> Undefined, outageCount |-> 0]

Metadata(feeder, aggregationType, outageCount) ==
    [present |-> TRUE, feeder |-> feeder, aggregationType |-> aggregationType,
     outageCount |-> outageCount]

\* Scenario A of the specification: 500 customers, one area, no estimate.
RecA ==
    Outage("A1", "Orion Group", "Canterbury", "1970-01-01T00:30:00Z", Undefined, Undefined,
           500, Undefined, TRUE, List(<<"Ponsonby">>), List(<<>>), NoMetadata)

\* Every optional property present; 3 customers.
RecFull ==
    Outage("B2", "PowerCo", "Taranaki", "1970-01-01T02:00:00Z", "1970-01-01T05:00:00Z",
           "planned", 3, "On site", TRUE, List(<<"Bell Block", "Waitara">>),
           List(<<"Main St", "High St">>),
           Metadata("F12", "feeder", 4))

\* outageStart is not a timestamp.
RecBadStart ==
    Outage("C3", "Orion Group", "Canterbury", "soon", Undefined, "unplanned",
           40, Undefined, TRUE, List(<<"Halswell">>), NoList, NoMetadata)

\* estimatedRestoration is not a timestamp.
RecBadRestoration ==
    Outage("D4", "PowerCo", "Taranaki", "1970-01-01T00:30:00Z", "TBC", Undefined,
           12, "Assigned", TRUE, NoList, List(<<"Kennedys Bush Rd">>), Metadata("F7", Undefined, 0))

\* The location object is missing (shape mismatch).
RecNoLocation ==
    Outage("E5", "Wellington Electricity", "Wellington", "1970-01-01T02:00:00Z", Undefined,
           Undefined, 7, Undefined, FALSE, NoList, NoList, NoMetadata)

\* Empty strings and empty lists; the identifier of RecA again; 0 customers.
RecEmpty ==
    Outage("A1", "Orion Group", "Canterbury", "1970-01-01T02:00:00Z", "", "",
           0, "", TRUE, List(<<>>), List(<<>>), Metadata("", "", 0))

Records == {RecA, RecFull, RecBadStart, RecBadRestoration, RecNoLocation, RecEmpty}

RECURSIVE SeqsUpTo(_, _)
SeqsUpTo(S, n) ==
    IF n = 0 THEN {<<>>}
    ELSE LET shorter == SeqsUpTo(S, n - 1)
         IN  shorter \cup {Append(q, x) : q \in {t \in shorter : Len(t) = n - 1}, x \in S}

\* A parsed JSON body: outages is a list of records or Undefined; the summary
\* object may be missing.
Body(outages, hasOutages, hasSummary) ==
    [outages |-> outages, hasOutages |-> hasOutages, hasSummary |-> hasSummary]

NoBody == Body(<<>>, FALSE, FALSE)

\* What fetch(url) settles with: a rejection (network failure), or a response
\* with a status and a body that is JSON or not.
Response(rejects, status, statusText, json, b) ==
    [rejects |-> rejects, status |-> status, statusText |-> statusText, json |-> json, body |-> b]

FailureResponses ==
    { Response(TRUE, 0, "", FALSE, NoBody),
      Response(FALSE, 503, "Service Unavailable", TRUE, Body(<<RecA>>, TRUE, TRUE)),
      Response(FALSE, 404, "Not Found", FALSE, NoBody),
      Response(FALSE, 200, "OK", FALSE, NoBody),
      Response(FALSE, 200, "OK", TRUE, Body(<<>>, FALSE, TRUE)) }

Responses ==
    FailureResponses \cup
    { Response(FALSE, 200, "OK", TRUE, Body(o, TRUE, hs)) :
        o \in SeqsUpTo(Records, MaxRecords), hs \in BOOLEAN }

\* The environment this.env(Env) resolves with.
EnvOf(min, utility, type) ==
    [API_URL |-> "https://utils.tak.nz/power-outages/outages",
     MinCustomers |-> min, UtilityFilter |-> utility, OutageType |-> type]

MinCustomersTexts ==
    { <<"0">>, <<"5">>, <<"-", "5">>, <<"a", "b", "c">>, <<>>,
      <<" ", "1", "0", " ">>, <<"5", "x">> }

Envs ==
    { EnvOf(m, u, t) : m \in MinCustomersTexts, u \in {Undefined, "", "ORION_NZ"},
                       t \in {Undefined, "planned"} }

NoEnv == EnvOf(<<>>, Undefined, Undefined)

NoResponse == Response(FALSE, 0, "", FALSE, NoBody)

\* Every combination of the optional properties the remarks depend on.
WideRecords ==
    { Outage("W9", "Orion Group", "Canterbury", start, er, type, 25, crew, TRUE,
             areas, streets, md) :
        start \in {"1970-01-01T00:30:00Z", "soon"},
        er \in {Undefined, "", "1970-01-01T05:00:00Z", "TBC"},
        type \in {Undefined, "", "planned"},
        crew \in {Undefined, "On site"},
        areas \in {NoList, List(<<>>), List(<<"Halswell">>)},
        streets \in {NoList, List(<<>>), List(<<"Main St", "High St">>)},
        md \in {NoMetadata} \cup
               { Metadata(f, a, 4) : f \in {Undefined, "F12"}, a \in {Undefined, "", "feeder"} } }

WideResponses ==
    FailureResponses \cup
    { Response(FALSE, 200, "OK", TRUE, Body(<<r>>, TRUE, TRUE)) : r \in WideRecords } \cup
    { Response(FALSE, 200, "OK", TRUE, Body(<<>>, TRUE, FALSE)) }

WideEnvs == { EnvOf(<<"0">>, Undefined, Undefined), EnvOf(<<"-", "5">>, Undefined, "planned") }

\* ---------------------------------------------------------------- transform

Line(label, value) == [label |-> label, value |-> value]

Newline == [label |-> "\n", value |-> ""]

\* Array.prototype.join(sep) of a list of template strings.
RECURSIVE Join(_, _)
Join(lines, sep) ==
    IF lines = <<>> THEN <<>>
    ELSE IF Len(lines) = 1 THEN lines
    ELSE <<Head(lines), sep>> \o Join(Tail(lines), sep)

\* areas?.join(', ') || 'Unknown'  (line 170)
AreasText(outage) ==
    IF outage.areas.present /\ outage.areas.items # <<>>
    THEN outage.areas.items ELSE <<"Unknown">>

\* Variant: the Type and Crew Status lines exchanged.
RemarksTypeAfterCrew(outage) ==
       << Line("Utility", outage.utilityName),
          Line("Customers Affected", outage.customersAffected),
          Line("Status", outage.status),
          Line("Cause", outage.cause),
          Line("Region", outage.region),
          Line("Areas", AreasText(outage)) >>
    \o (IF outage.streets.present /\ Len(outage.streets.items) > 0
        THEN <<Line("Streets", outage.streets.items)>> ELSE <<>>)
    \o << Line("Outage Start", ToLocaleString(NewDate(outage.outageStart))) >>
    \o (IF Truthy(outage.estimatedRestoration)
        THEN <<Line("Estimated Restoration",
                    ToLocaleString(NewDate(outage.estimatedRestoration)))>>
        ELSE <<>>)
    \o (IF Truthy(outage.crewStatus) THEN <<Line("Crew Status", outage.crewStatus)>> ELSE <<>>)
    \o (IF Truthy(outage.outageType) THEN <<Line("Type", outage.outageType)>> ELSE <<>>)
    \o (IF outage.metadata.present /\ Truthy(outage.metadata.feeder)
        THEN <<Line("Feeder", outage.metadata.feeder)>> ELSE <<>>)
    \o (IF outage.metadata.present /\ Truthy(outage.metadata.aggregationType)
        THEN <<Line("Aggregated", outage.metadata.outageCount)>> ELSE <<>>)

\* const remarks = [...]  (lines 164-178)
Remarks(outage) ==
       << Line("Utility", outage.utilityName),
          Line("Customers Affected", outage.customersAffected),
          Line("Status", outage.status),
          Line("Cause", outage.cause),
          Line("Region", outage.region),
          Line("Areas", AreasText(outage)) >>
    \o (IF outage.streets.present /\ Len(outage.streets.items) > 0
        THEN <<Line("Streets", outage.streets.items)>> ELSE <<>>)
    \o << Line("Outage Start", ToLocaleString(NewDate(outage.outageStart))) >>
    \o (IF Truthy(outage.estimatedRestoration)
        THEN <<Line("Estimated Restoration",
                    ToLocaleString(NewDate(outage.estimatedRestoration)))>>
        ELSE <<>>)
    \o (IF Truthy(outage.outageType) THEN <<Line("Type", outage.outageType)>> ELSE <<>>)
    \o (IF Truthy(outage.crewStatus) THEN <<Line("Crew Status", outage.crewStatus)>> ELSE <<>>)
    \o (IF outage.metadata.present /\ Truthy(outage.metadata.feeder)
        THEN <<Line("Feeder", outage.metadata.feeder)>> ELSE <<>>)
    \o (IF outage.metadata.present /\ Truthy(outage.metadata.aggregationType)
        THEN <<Line("Aggregated", outage.metadata.outageCount)>> ELSE <<>>)

\* `${outage.utility.name} - ${outage.location.areas?.[0] || outage.region}`  (line 184)
Callsign(outage) ==
    << outage.utilityName,
       IF outage.areas.present /\ outage.areas.items # <<>> /\ outage.areas.items[1] # ""
       THEN outage.areas.items[1] ELSE outage.region >>

\* Variant: the default expiry one minute after generation.
StaleOneMinute(outage, clock) ==
    IF Truthy(outage.estimatedRestoration)
    THEN ToISOString(NewDate(outage.estimatedRestoration))
    ELSE ToISOString(DateOf(clock + 60 * 1000))

\* The stale property (lines 189-191); clock is the reading of Date.now().
Stale(outage, clock) ==
    IF Truthy(outage.estimatedRestoration)
    THEN ToISOString(NewDate(outage.estimatedRestoration))
    ELSE ToISOString(DateOf(clock + 60 * 60 * 1000))

\* The error one iteration of the loop body raises, "none" if it raises none
\* (lines 161-199): reading coordinates of a missing location is a TypeError;
\* toISOString of an invalid Date is a RangeError.
TransformError(outage) ==
    IF ~outage.hasLocation THEN "TypeError"
    ELSE IF ToISOStringThrows(NewDate(outage.outageStart)) THEN "RangeError"
    ELSE IF Truthy(outage.estimatedRestoration)
            /\ ToISOStringThrows(NewDate(outage.estimatedRestoration)) THEN "RangeError"
    ELSE "none"

\* The object pushed for one record (lines 180-199).
Feature(outage, clock) ==
    [id |-> <<"poweroutage-", outage.outageId>>,
     type |-> "Feature",
     callsign |-> Callsign(outage),
     cotType |-> "a-f-X-i",
     icon |-> "bb4df0a6-ca8d-4ba8-bb9e-3deb97ff015e:Incidents/INC.04.PowerOutage",
     time |-> ToISOString(NewDate(outage.outageStart)),
     start |-> ToISOString(NewDate(outage.outageStart)),
     stale |-> Stale(outage, clock),
     metadata |-> outage,
     remarks |-> Join(Remarks(outage), Newline),
     geometry |-> [type |-> "Point", coordinates |-> <<outage.longitude, outage.latitude>>]]

\* ---------------------------------------------------------------- request URL

Param(key, value) == [key |-> key, value |-> value]

\* Variant: minCustomers appended for every valid value, 0 included.
QueryParamsFromZero(e, n) ==
       (IF n.value >= 0 THEN <<Param("minCustomers", NumberToString(n.value))>> ELSE <<>>)
    \o (IF Truthy(e.UtilityFilter) THEN <<Param("utility", <<e.UtilityFilter>>)>> ELSE <<>>)
    \o (IF Truthy(e.OutageType) THEN <<Param("outageType", <<e.OutageType>>)>> ELSE <<>>)

\* The URLSearchParams filled by lines 133-143.
QueryParams(e, n) ==
       (IF n.value > 0 THEN <<Param("minCustomers", NumberToString(n.value))>> ELSE <<>>)
    \o (IF Truthy(e.UtilityFilter) THEN <<Param("utility", <<e.UtilityFilter>>)>> ELSE <<>>)
    \o (IF Truthy(e.OutageType) THEN <<Param("outageType", <<e.OutageType>>)>> ELSE <<>>)

\* URLSearchParams.prototype.toString(): key=value pairs joined by "&"; the
\* empty string when there is no pair.
ParamsToString(params) == Join(params, Param("&", <<>>))

\* let url (lines 132-147): the base, then "?" and the query when the query is
\* a non-empty string.
BuildUrl(e, n) ==
    LET query == ParamsToString(QueryParams(e, n))
    IN  IF query # <<>> THEN <<Param("base", <<e.API_URL>>), Param("?", <<>>)>> \o query
        ELSE <<Param("base", <<e.API_URL>>)>>

\* Variant: only NaN rejected.
InvalidMinCustomersNaNOnly(n) == isNaN(n)

\* if (isNaN(minCustomers) || minCustomers < 0)  (line 128)
InvalidMinCustomers(n) == isNaN(n) \/ n.value < 0

\* ---------------------------------------------------------------- control()

ConsoleLine(level, text, error, count) ==
    [level |-> level, text |-> text, error |-> error, count |-> count]

NoCollection == [type |-> "none", features |-> <<>>]

Init ==
    /\ pc = "start"
    /\ env = NoEnv
    /\ minCustomers = Num(0)
    /\ url = <<>>
    /\ fetchCount = 0
    /\ res = NoResponse
    /\ body = NoBody
    /\ features = <<>>
    /\ idx = 0
    /\ builtAt = <<>>
    /\ now = 0
    /\ submitCount = 0
    /\ submitted = NoCollection
    /\ console = <<>>
    /\ raised = NoError
    /\ thrown = NoError

\* Variant: the catch clause logs and does not re-throw.
CatchSwallows(error) ==
    /\ raised' = error
    /\ console' = Append(console, ConsoleLine("error", "Error in ETL process", error, 0))
    /\ thrown' = NoError
    /\ pc' = "done"

\* catch (error) { console.error(...error.message...); throw error; }  (lines 208-211)
Catch(error) ==
    /\ raised' = error
    /\ console' = Append(console, ConsoleLine("error", "Error in ETL process", error, 0))
    /\ thrown' = error
    /\ pc' = "failed"

\* await this.env(Env) resolves  (line 125)
LoadEnv(E) ==
    /\ pc = "start"
    /\ \E e \in E : env' = e
    /\ pc' = "validate"
    /\ UNCHANGED <<minCustomers, url, fetchCount, res, body, features, idx, builtAt, now,
                   submitCount, submitted, console, raised, thrown>>

\* await this.env(Env) rejects  (line 125)
EnvRejects ==
    /\ pc = "start"
    /\ Catch(Err("EnvError", "environment unavailable"))
    /\ UNCHANGED <<env, minCustomers, url, fetchCount, res, body, features, idx, builtAt, now,
                   submitCount, submitted>>

\* lines 127-130: the 'Min Customers' text is not a number >= 0
ValidateFails ==
    /\ pc = "validate"
    /\ minCustomers' = Number(env.MinCustomers)
    /\ InvalidMinCustomers(minCustomers')
    /\ Catch(Err("Error", "Invalid minimum customers value"))
    /\ UNCHANGED <<env, url, fetchCount, res, body, features, idx, builtAt, now,
                   submitCount, submitted>>

\* lines 127-151: the value is valid, the URL is built and fetch(url) is called
StartFetch ==
    /\ pc = "validate"
    /\ minCustomers' = Number(env.MinCustomers)
    /\ ~InvalidMinCustomers(minCustomers')
    /\ url' = BuildUrl(env, minCustomers')
    /\ console' = Append(console, ConsoleLine("log", "ok - Fetching power outages from", NoError, 0))
    /\ fetchCount' = fetchCount + 1
    /\ pc' = "fetching"
    /\ UNCHANGED <<env, res, body, features, idx, builtAt, now, submitCount, submitted,
                   raised, thrown>>

\* Variant: every response taken as a success.
OkAlways(r) == TRUE

\* Response.ok
Ok(r) == r.status \in 200..299

\* await fetch(url) rejects  (line 151)
FetchRejects(R) ==
    /\ pc = "fetching"
    /\ \E r \in R : r.rejects
    /\ Catch(Err("TypeError", "fetch failed"))
    /\ UNCHANGED <<env, minCustomers, url, fetchCount, res, body, features, idx, builtAt, now,
                   submitCount, submitted>>

\* if (!res.ok) throw new Error(`Failed to fetch data: ...`)  (lines 153-155)
FetchNotOk(R) ==
    /\ pc = "fetching"
    /\ \E r \in R :
         /\ ~r.rejects
         /\ res' = r
    /\ ~Ok(res')
    /\ Catch([kind |-> "Error", message |-> "Failed to fetch data",
              status |-> res'.status, statusText |-> res'.statusText])
    /\ UNCHANGED <<env, minCustomers, url, fetchCount, body, features, idx, builtAt, now,
                   submitCount, submitted>>

\* await res.json() rejects: the body is not JSON  (line 157)
JsonRejects(R) ==
    /\ pc = "fetching"
    /\ \E r \in R :
         /\ ~r.rejects
         /\ res' = r
    /\ Ok(res')
    /\ ~res'.json
    /\ Catch(Err("SyntaxError", "Unexpected token"))
    /\ UNCHANGED <<env, minCustomers, url, fetchCount, body, features, idx, builtAt, now,
                   submitCount, submitted>>

\* await res.json() resolves; features = []  (lines 157-158)
JsonResolves(R) ==
    /\ pc = "fetching"
    /\ \E r \in R :
         /\ ~r.rejects
         /\ res' = r
    /\ Ok(res')
    /\ res'.json
    /\ body' = res'.body
    /\ features' = <<>>
    /\ idx' = 1
    /\ pc' = "transform"
    /\ UNCHANGED <<env, minCustomers, url, fetchCount, builtAt, now, submitCount,
                   submitted, console, raised, thrown>>

\* for (const outage of body.outages) with body.outages undefined  (line 160)
OutagesNotIterable ==
    /\ pc = "transform"
    /\ ~body.hasOutages
    /\ Catch(Err("TypeError", "body.outages is not iterable"))
    /\ UNCHANGED <<env, minCustomers, url, fetchCount, res, body, features, idx, builtAt, now,
                   submitCount, submitted>>

\* Variant: the new feature put in front of the list.
TransformRecordPrepends ==
    /\ pc = "transform"
    /\ body.hasOutages
    /\ idx <= Len(body.outages)
    /\ TransformError(body.outages[idx]) = "none"
    /\ features' = <<Feature(body.outages[idx], now)>> \o features
    /\ builtAt' = <<now>> \o builtAt
    /\ idx' = idx + 1
    /\ UNCHANGED <<pc, env, minCustomers, url, fetchCount, res, body, now, submitCount,
                   submitted, console, raised, thrown>>

\* Variant: records below the minimum-customers threshold are skipped.
TransformRecordFiltered ==
    /\ pc = "transform"
    /\ body.hasOutages
    /\ idx <= Len(body.outages)
    /\ TransformError(body.outages[idx]) = "none"
    /\ IF body.outages[idx].customersAffected < minCustomers.value
       THEN UNCHANGED <<features, builtAt>>
       ELSE /\ features' = Append(features, Feature(body.outages[idx], now))
            /\ builtAt' = Append(builtAt, now)
    /\ idx' = idx + 1
    /\ UNCHANGED <<pc, env, minCustomers, url, fetchCount, res, body, now, submitCount,
                   submitted, console, raised, thrown>>

\* one iteration of the loop that pushes a feature  (lines 160-200)
TransformRecord ==
    /\ pc = "transform"
    /\ body.hasOutages
    /\ idx <= Len(body.outages)
    /\ TransformError(body.outages[idx]) = "none"
    /\ features' = Append(features, Feature(body.outages[idx], now))
    /\ builtAt' = Append(builtAt, now)
    /\ idx' = idx + 1
    /\ UNCHANGED <<pc, env, minCustomers, url, fetchCount, res, body, now, submitCount,
                   submitted, console, raised, thrown>>

\* Variant: a throwing record is skipped and the loop goes on.
TransformThrowsSkips ==
    /\ pc = "transform"
    /\ body.hasOutages
    /\ idx <= Len(body.outages)
    /\ TransformError(body.outages[idx]) # "none"
    /\ idx' = idx + 1
    /\ UNCHANGED <<pc, env, minCustomers, url, fetchCount, res, body, features, builtAt, now,
                   submitCount, submitted, console, raised, thrown>>

\* one iteration of the loop that throws  (lines 160-200)
TransformThrows ==
    /\ pc = "transform"
    /\ body.hasOutages
    /\ idx <= Len(body.outages)
    /\ TransformError(body.outages[idx]) # "none"
    /\ Catch(Err(TransformError(body.outages[idx]), "transform"))
    /\ UNCHANGED <<env, minCustomers, url, fetchCount, res, body, features, idx, builtAt, now,
                   submitCount, submitted>>

\* the summary line reads body.summary.totalCustomersAffected of a body
\* without a summary  (line 206)
SummaryThrows ==
    /\ pc = "transform"
    /\ body.hasOutages
    /\ idx > Len(body.outages)
    /\ ~body.hasSummary
    /\ Catch(Err("TypeError", "body.summary is undefined"))
    /\ UNCHANGED <<env, minCustomers, url, fetchCount, res, body, features, idx, builtAt, now,
                   submitCount, submitted>>

\* the loop is over: fc is assembled, the summary is logged and
\* this.submit(fc) is called  (lines 202-207)
Submit ==
    /\ pc = "transform"
    /\ body.hasOutages
    /\ idx > Len(body.outages)
    /\ body.hasSummary
    /\ console' = Append(console, ConsoleLine("log", "ok - fetched power outages", NoError,
                                              Len(features)))
    /\ submitted' = [type |-> "FeatureCollection", features |-> features]
    /\ submitCount' = submitCount + 1
    /\ pc' = "submitting"
    /\ UNCHANGED <<env, minCustomers, url, fetchCount, res, body, features, idx, builtAt, now,
                   raised, thrown>>

\* await this.submit(fc) resolves: control() returns  (line 207)
SubmitResolves ==
    /\ pc = "submitting"
    /\ pc' = "done"
    /\ UNCHANGED <<env, minCustomers, url, fetchCount, res, body, features, idx, builtAt, now,
                   submitCount, submitted, console, raised, thrown>>

\* await this.submit(fc) rejects  (line 207)
SubmitRejects ==
    /\ pc = "submitting"
    /\ Catch(Err("SubmitError", "submit failed"))
    /\ UNCHANGED <<env, minCustomers, url, fetchCount, res, body, features, idx, builtAt, now,
                   submitCount, submitted>>

\* The system clock advances while control() runs.
Tick ==
    /\ pc \notin {"done", "failed"}
    /\ now < MaxTicks * 1000
    /\ now' = now + 1000
    /\ UNCHANGED <<pc, env, minCustomers, url, fetchCount, res, body, features, idx, builtAt,
                   submitCount, submitted, console, raised, thrown>>

Next ==
    \/ LoadEnv(Envs)
    \/ EnvRejects
    \/ ValidateFails
    \/ StartFetch
    \/ FetchRejects(Responses)
    \/ FetchNotOk(Responses)
    \/ JsonRejects(Responses)
    \/ JsonResolves(Responses)
    \/ OutagesNotIterable
    \/ TransformRecord
    \/ TransformThrows
    \/ SummaryThrows
    \/ Submit
    \/ SubmitResolves
    \/ SubmitRejects
    \/ Tick

Spec == Init /\ [][Next]_vars

\* control() on one-record reports covering every combination of optional
\* properties.
NextWide ==
    \/ LoadEnv(WideEnvs)
    \/ EnvRejects
    \/ ValidateFails
    \/ StartFetch
    \/ FetchRejects(WideResponses)
    \/ FetchNotOk(WideResponses)
    \/ JsonRejects(WideResponses)
    \/ JsonResolves(WideResponses)
    \/ OutagesNotIterable
    \/ TransformRecord
    \/ TransformThrows
    \/ SummaryThrows
    \/ Submit
    \/ SubmitResolves
    \/ SubmitRejects
    \/ Tick

SpecWide == Init /\ [][NextWide]_vars

\* ---------------------------------------------------------------- properties

\* The environment has been read: control() is past line 125.
EnvLoaded == pc # "start" /\ raised.kind # "EnvError"

ErrorLines == SelectSeq(console, LAMBDA l : l.level = "error")

HasKey(u, key) == \E i \in 1..Len(u) : u[i].key = key

HourMs == 3600000

\* C1: whenever the configured 'Min Customers' text does not parse to a number
\* or parses to a negative number, control() fails with the configuration
\* error and neither fetch nor submit is ever called in that run.
C1_InvalidMinCustomersFailsBeforeAnyCall ==
    (EnvLoaded /\ (Number(env.MinCustomers).nan \/ Number(env.MinCustomers).value < 0))
        => /\ fetchCount = 0
           /\ submitCount = 0
           /\ pc \in {"validate", "failed"}
           /\ pc = "failed" => raised = Err("Error", "Invalid minimum customers value")

C1_Witness ==
    /\ pc = "failed"
    /\ env.MinCustomers = <<"-", "5">>
    /\ raised.message = "Invalid minimum customers value"
    /\ fetchCount = 0

\* C2: whenever the GET resolves with a non-success status, control() fails
\* with the transport error carrying that status code and status text, no
\* feature has been constructed and submit is not called.
C2_NonSuccessStatusFailsBeforeTransform ==
    (res # NoResponse /\ res.status \notin 200..299)
        => /\ pc = "failed"
           /\ raised.message = "Failed to fetch data"
           /\ raised.status = res.status
           /\ raised.statusText = res.statusText
           /\ features = <<>>
           /\ body = NoBody
           /\ submitCount = 0

C2_Witness ==
    /\ pc = "failed"
    /\ res.status = 503
    /\ raised.status = 503
    /\ raised.statusText = "Service Unavailable"

\* C3: no partial submission: submit is called at most once, only when the
\* loop has passed every record of the report, and with a collection holding
\* a feature for every record; a run that failed before the submit call
\* (configuration, fetch, parse, transform) has called submit zero times.
C3_NoPartialSubmission ==
    /\ submitCount <= 1
    /\ submitCount = 1
         => /\ body.hasOutages
            /\ idx = Len(body.outages) + 1
            /\ Len(submitted.features) = Len(body.outages)
            /\ \A i \in 1..Len(body.outages) :
                 submitted.features[i].metadata = body.outages[i]
    /\ (pc = "failed" /\ raised.kind # "SubmitError") => submitCount = 0
    /\ submitCount = 0 => submitted = NoCollection

C3_Witness ==
    /\ pc = "failed"
    /\ raised.kind \in {"RangeError", "TypeError"}
    /\ Len(features) = 1
    /\ Len(body.outages) = 2
    /\ submitCount = 0

\* C4: the feature list has one feature per record passed, in input order,
\* the i-th identifier being "poweroutage-" followed by the i-th record's
\* outageId; the submitted collection has exactly as many features as the
\* report has records, and equal records give equal identifiers.
C4_OneFeaturePerRecordInOrder ==
    /\ \A i \in 1..Len(features) :
         /\ i <= Len(body.outages)
         /\ features[i].id = <<"poweroutage-", body.outages[i].outageId>>
    /\ pc = "transform" => Len(features) = idx - 1
    /\ submitCount = 1
         => /\ Len(submitted.features) = Len(body.outages)
            /\ \A i \in 1..Len(body.outages) :
                 submitted.features[i].id = <<"poweroutage-", body.outages[i].outageId>>
            /\ \A i, j \in 1..Len(body.outages) :
                 body.outages[i] = body.outages[j]
                    => submitted.features[i].id = submitted.features[j].id

C4_Witness ==
    /\ submitCount = 1
    /\ Len(submitted.features) = 2
    /\ submitted.features[1].id = <<"poweroutage-", "B2">>
    /\ submitted.features[2].id = <<"poweroutage-", "A1">>

\* C5: once the URL is built (for a valid 'Min Customers'), it holds the
\* minCustomers parameter iff the parsed value is > 0, utility and outageType
\* iff the corresponding filter is set (a non-empty string), and "?" iff at
\* least one parameter is included.
C5_QueryParametersIffSet ==
    fetchCount = 1
        => /\ HasKey(url, "minCustomers") <=> Number(env.MinCustomers).value > 0
           /\ HasKey(url, "utility") <=> Truthy(env.UtilityFilter)
           /\ HasKey(url, "outageType") <=> Truthy(env.OutageType)
           /\ HasKey(url, "?") <=>
                (HasKey(url, "minCustomers") \/ HasKey(url, "utility") \/ HasKey(url, "outageType"))
           /\ url[1] = Param("base", <<env.API_URL>>)
           /\ HasKey(url, "?") => url[2].key = "?"

C5_Witness ==
    /\ fetchCount = 1
    /\ minCustomers.value = 0
    /\ env.UtilityFilter = ""
    /\ env.OutageType = Undefined
    /\ Len(url) = 1

\* The lines of the specification's remarks block, in its documented order.
DocumentedOrder ==
    << "Utility", "Customers Affected", "Status", "Cause", "Region", "Areas", "Streets",
       "Outage Start", "Estimated Restoration", "Type", "Crew Status", "Feeder", "Aggregated" >>

\* The property a line depends on is present (and, for a string, non-empty).
LinePresent(label, outage) ==
    CASE label = "Streets" -> outage.streets.present /\ outage.streets.items # <<>>
      [] label = "Estimated Restoration" -> Truthy(outage.estimatedRestoration)
      [] label = "Type" -> Truthy(outage.outageType)
      [] label = "Crew Status" -> Truthy(outage.crewStatus)
      [] label = "Feeder" -> outage.metadata.present /\ Truthy(outage.metadata.feeder)
      [] label = "Aggregated" -> outage.metadata.present /\ Truthy(outage.metadata.aggregationType)
      [] OTHER -> TRUE

AllOptionalPresent(outage) == \A i \in 1..Len(DocumentedOrder) : LinePresent(DocumentedOrder[i], outage)

\* The number of newline-separated lines of a remarks string.
LineCount(text) == Cardinality({i \in 1..Len(text) : text[i].label = "\n"}) + 1

\* The labels of the lines of a remarks string, newlines dropped.
LineLabels(text) ==
    LET lines == SelectSeq(text, LAMBDA l : l.label # "\n")
    IN  [i \in 1..Len(lines) |-> lines[i].label]

ExpectedLabels(outage) == SelectSeq(DocumentedOrder, LAMBDA label : LinePresent(label, outage))

\* C6 as stated: a record with every optional property present yields a
\* remarks string of exactly 12 newline-separated lines.
C6_AllPresentGivesTwelveLines ==
    \A i \in 1..Len(features) :
        AllOptionalPresent(features[i].metadata) => LineCount(features[i].remarks) = 12

\* C6 (amended): the remarks of every feature are the documented lines whose
\* property is present (and non-empty), in the documented order, separated by
\* single newlines: 13 lines when every optional property is present, and
\* never fewer than the 7 unconditional ones.
C6_RemarksInDocumentedOrder ==
    \A i \in 1..Len(features) :
        LET text == features[i].remarks
            outage == features[i].metadata
        IN  /\ LineLabels(text) = ExpectedLabels(outage)
            /\ LineCount(text) = Len(ExpectedLabels(outage))
            /\ \A k \in 1..Len(text) : (text[k].label = "\n") <=> (k % 2 = 0)
            /\ AllOptionalPresent(outage) => LineCount(text) = 13
            /\ LineCount(text) >= 7

C6_Witness ==
    /\ Len(features) = 1
    /\ AllOptionalPresent(features[1].metadata)
    /\ LineCount(features[1].remarks) = 13
    /\ LineLabels(features[1].remarks) = DocumentedOrder

\* C7: the stale instant of every feature is the instant parsed from the
\* record's estimatedRestoration when that property is present (non-empty),
\* and otherwise the clock reading taken when the feature was built plus
\* exactly 3,600,000 ms.
C7_StaleFromRestorationOrOneHour ==
    /\ Len(builtAt) = Len(features)
    /\ \A i \in 1..Len(features) :
         LET outage == features[i].metadata
         IN  IF Truthy(outage.estimatedRestoration)
             THEN /\ NewDate(outage.estimatedRestoration).valid
                  /\ features[i].stale = NewDate(outage.estimatedRestoration).ms
             ELSE features[i].stale = builtAt[i] + HourMs

C7_Witness ==
    /\ Len(features) = 2
    /\ features[1].metadata = RecFull
    /\ features[1].stale = 18000000
    /\ features[2].metadata = RecA
    /\ builtAt[2] = 1000
    /\ features[2].stale = 3601000

\* C8: every error raised inside control() is logged with one diagnostic line
\* and re-thrown unchanged: control() does not complete normally after a
\* failure, and fetch is called at most once per run.
C8_ErrorsLoggedOnceAndRethrown ==
    /\ fetchCount <= 1
    /\ raised # NoError <=> pc = "failed"
    /\ thrown = raised
    /\ pc = "failed" => ErrorLines = <<ConsoleLine("error", "Error in ETL process", raised, 0)>>
    /\ pc # "failed" => ErrorLines = <<>>

C8_Witness ==
    /\ pc = "failed"
    /\ raised.kind = "SubmitError"
    /\ thrown = raised
    /\ Len(ErrorLines) = 1
    /\ fetchCount = 1

\* The record's outageStart, or its non-empty estimatedRestoration, does not
\* parse to a valid instant.
BadTimestamp(outage) ==
    \/ ~NewDate(outage.outageStart).valid
    \/ Truthy(outage.estimatedRestoration) /\ ~NewDate(outage.estimatedRestoration).valid

\* C9 as stated: a record whose outageStart or estimatedRestoration does not
\* parse to a valid instant does not abort the batch (no error is raised at
\* that record).
C9_BadTimestampDoesNotAbort ==
    \A i \in 1..Len(body.outages) :
        (BadTimestamp(body.outages[i]) /\ body.outages[i].hasLocation /\ idx = i)
            => pc # "failed"

\* C9 (amended): a record whose outageStart, or whose non-empty
\* estimatedRestoration, does not parse to a valid instant aborts the batch:
\* no feature is built for it or for any later record, the run fails there
\* with a RangeError, and nothing is submitted.
C9_BadTimestampAbortsTheBatch ==
    \A i \in 1..Len(body.outages) :
        BadTimestamp(body.outages[i])
            => /\ Len(features) < i
               /\ idx <= i
               /\ submitCount = 0
               /\ pc \in {"transform", "failed"}
               /\ (pc = "failed" /\ idx = i /\ body.outages[i].hasLocation)
                    => raised.kind = "RangeError"

C9_Witness ==
    /\ pc = "failed"
    /\ raised.kind = "RangeError"
    /\ Len(body.outages) = 2
    /\ BadTimestamp(body.outages[1])
    /\ features = <<>>
    /\ submitCount = 0

\* C10 as stated: every feature of the submitted collection comes from a
\* record whose customersAffected is at least minCustomers.
C10_SubmittedFeaturesMeetThreshold ==
    submitCount = 1
        => \A i \in 1..Len(submitted.features) :
             submitted.features[i].metadata.customersAffected >= minCustomers.value

BelowThreshold(s) == {i \in 1..Len(s) : s[i].customersAffected < minCustomers.value}

\* C10 (amended): the threshold is only sent to the API as the minCustomers
\* query parameter; the transform loop filters nothing, so every record of
\* the response, those with customersAffected below minCustomers included,
\* has its feature in the submitted collection.
C10_ThresholdOnlyInQuery ==
    /\ fetchCount = 1 /\ minCustomers.value > 0
         => \E k \in 1..Len(url) :
              url[k] = Param("minCustomers", NumberToString(minCustomers.value))
    /\ submitCount = 1
         => BelowThreshold([i \in 1..Len(submitted.features) |-> submitted.features[i].metadata])
              = BelowThreshold(body.outages)

C10_Witness ==
    /\ submitCount = 1
    /\ minCustomers.value = 5
    /\ Len(submitted.features) = 2
    /\ submitted.features[1].metadata.customersAffected = 3
    /\ submitted.features[2].metadata.customersAffected = 0

====
